---- MODULE Spec2Model ----
(***************************************************************************)
(* Model of inferllm::Tensor's buffer lifecycle (src/core/tensor.cpp):     *)
(* prepare_data, recall_data, set_shared_memory and ~Tensor, together with *)
(* the dtype sizing table.  The Device and the InputFile are collaborators *)
(* whose calls are recorded, in order, in the ghost variable log.          *)
(***************************************************************************)
EXTENDS Integers, Sequences, FiniteSets

\* ------------------------------------------------------------------ bounds
\* Largest number of Device::allocate calls in one behaviour.
MaxAlloc == 2
\* Number of distinct caller-owned buffers offered to set_shared_memory.
NumExtPtrs == 2

\* ------------------------------------------------------------- enumerations
Float32 == "Float32"
Int32 == "Int32"
Float16 == "Float16"
Int16 == "Int16"
Float8 == "Float8"
Uint8 == "Uint8"
Int8 == "Int8"
Int4 == "Int4"
DTypes == {Float32, Int32, Float16, Int16, Float8, Uint8, Int8, Int4}
\* DType values that reach the default label of the two switches
OtherDTypes == {"DType_8", "DType_9", "DType_255"}

\* TensorState
OutSide == "OutSide"
Own == "Own"

\* KernelType
CPU == "CPU"
GPU == "GPU"

\* cudaError_t
cudaSuccess == "cudaSuccess"
cudaErrorUnknown == "cudaErrorUnknown"
CudaErrors == {cudaSuccess, cudaErrorUnknown}

\* ----------------------------------------------------------------- handles
\* A pointer is <<region, id>>: "dev" a Device::allocate result, "mmap" a
\* pointer into the file mapping, "ext" caller-owned memory, "host" a new[]
\* staging buffer.
Null == <<"null", 0>>
ExtPtrs == {<<"ext", k>> : k \in 1..NumExtPtrs}

\* m_file: nullptr, or a file whose enable_mmap() is mmap.
NoFile == [present |-> FALSE, mmap |-> FALSE]
Files == {NoFile, [present |-> TRUE, mmap |-> TRUE], [present |-> TRUE, mmap |-> FALSE]}

ElementCounts == {10, 100}
FileOffsets == {0, 64}

\* -------------------------------------------------------------- dtype table
\* kern/kernel_define.h
QK40 == 32
QK80 == 32
sizeof_BlockQ40 == 20
sizeof_BlockQ80 == 36
sizeof_float == 4
\* The value standing for "INFER_ASSERT fired, no value returned".
AssertFailed == 0 - 1

dtype_in_byte(dtype) ==
    CASE dtype \in {Float32, Int32} -> 4
      [] dtype \in {Float16, Int16} -> 2
      [] dtype \in {Float8, Uint8} -> 1
      [] dtype = Int8 -> sizeof_BlockQ80
      [] dtype = Int4 -> sizeof_BlockQ40
      [] OTHER -> AssertFailed

\* mutant of dtype_block_size: the Int4 label is missing
dtype_block_size_NoInt4(dtype) ==
    CASE dtype \in {Float32, Int32, Float16, Int16, Float8, Uint8} -> 1
      [] dtype = Int8 -> QK80
      [] OTHER -> AssertFailed

dtype_block_size(dtype) ==
    CASE dtype \in {Float32, Int32, Float16, Int16, Float8, Uint8} -> 1
      [] dtype = Int8 -> QK80
      [] dtype = Int4 -> QK40
      [] OTHER -> AssertFailed

VARIABLES
    m_dtype,        \* element type
    m_length,       \* element count
    m_device,       \* m_device->type()
    m_file,         \* file backing, NoFile for nullptr
    m_file_offset,  \* byte offset of the tensor in the file
    m_data,         \* the data handle
    m_state,        \* TensorState
    m_shared,       \* set by set_shared_memory
    pc,             \* "alive", "destroyed" (after ~Tensor) or "aborted" (INFER_ASSERT)
    log,            \* every collaborator call so far, in order
    lastOp,         \* the member function that ran last
    prevOp,         \* the member function that ran before it
    pre,            \* m_data, m_state, m_shared when the last call started
    args,           \* the arguments of the last set_shared_memory call
    ret,            \* the value the last call returned
    callStart,      \* Len(log) when the last call started
    prevStart,      \* Len(log) when the call before it started
    bound,          \* the non-null pointers passed to set_shared_memory so far
    orphaned,       \* the Device::allocate results m_data held when set_shared_memory replaced it
    q_table,        \* the dtype table calls that returned: [fn, dtype, value]
    q_abort,        \* the dtype table call whose INFER_ASSERT fired, if any
    q_pc            \* "run", or "aborted" once a dtype table call asserted

cfgVars == <<m_dtype, m_length, m_device, m_file, m_file_offset>>
vars == <<m_dtype, m_length, m_device, m_file, m_file_offset, m_data, m_state,
          m_shared, pc, log, lastOp, prevOp, pre, args, ret, callStart,
          prevStart, bound, orphaned, q_table, q_abort, q_pc>>
dtVars == <<q_table, q_abort, q_pc>>
tensorVars == <<m_dtype, m_length, m_device, m_file, m_file_offset, m_data, m_state,
                m_shared, pc, log, lastOp, prevOp, pre, args, ret, callStart,
                prevStart, bound, orphaned>>

\* total byte length of the tensor's buffer
length_in_byte ==
    ((m_length + dtype_block_size(m_dtype) - 1) \div dtype_block_size(m_dtype))
        * dtype_in_byte(m_dtype)

\* ------------------------------------------------------- collaborator calls
Ev(op, ptr, src, bytes, off, err) ==
    [op |-> op, ptr |-> ptr, src |-> src, bytes |-> bytes, off |-> off, err |-> err]

RECURSIVE CountOp(_, _)
CountOp(lg, op) ==
    IF lg = <<>> THEN 0
    ELSE (IF lg[Len(lg)].op = op THEN 1 ELSE 0) + CountOp(SubSeq(lg, 1, Len(lg) - 1), op)

\* the pointers Device::allocate returned in lg
AllocatedPtrs(lg) == {lg[i].ptr : i \in {j \in DOMAIN lg : lg[j].op = "allocate"}}

\* Device::allocate returns memory that is not null and not in use.
allocate(lg) == <<"dev", CountOp(lg, "allocate") + 1>>
\* operator new[] likewise.
new_array(lg) == <<"host", CountOp(lg, "new") + 1>>
\* InputFile::get_mmap_data returns the mapping's address of the offset.
get_mmap_data(len, offset) == <<"mmap", offset>>
enable_mmap == m_file.mmap

\* the tensor's mutable fields and the call log, as one value
Self == [m_data |-> m_data, m_state |-> m_state, m_shared |-> m_shared, log |-> log]

\* --------------------------------------------------------- member functions
\* mutant of prepare_data_needed: the entry check forgets !m_data
prepare_data_needed_StateOnly(self) == self.m_state = OutSide

\* the entry check of prepare_data
prepare_data_needed(self) == self.m_data = Null /\ self.m_state = OutSide

\* mutant of prepare_no_file: the element count is taken for the byte length
prepare_no_file_ElementCount(self, length) ==
    LET data == allocate(self.log)
    IN [self EXCEPT !.m_data = data, !.m_state = Own,
                    !.log = Append(@, Ev("allocate", data, Null, m_length, 0, cudaSuccess))]

\* the branch of prepare_data for a tensor without file
prepare_no_file(self, length) ==
    LET data == allocate(self.log)
    IN [self EXCEPT !.m_data = data, !.m_state = Own,
                    !.log = Append(@, Ev("allocate", data, Null, length, 0, cudaSuccess))]

Tensor_prepare_data(self, error) ==
    LET length == length_in_byte IN
    IF prepare_data_needed(self)
    THEN IF m_file.present
         THEN IF enable_mmap
              THEN IF m_device = GPU
                   THEN LET temp_ptr == get_mmap_data(length, m_file_offset)
                            lg1 == Append(self.log,
                                     Ev("get_mmap_data", temp_ptr, Null, length, m_file_offset, cudaSuccess))
                            data == allocate(lg1)
                            lg2 == lg1 \o
                                     << Ev("allocate", data, Null, length, 0, cudaSuccess),
                                        Ev("cudaMemcpy", data, temp_ptr, length, 0, error) >>
                            lg3 == IF error # cudaSuccess
                                   THEN Append(lg2, Ev("printf", Null, Null, 0, 0, error))
                                   ELSE lg2
                        IN [self EXCEPT !.m_data = data, !.m_state = Own, !.log = lg3]
                   ELSE LET data == get_mmap_data(length, m_file_offset)
                        IN [self EXCEPT !.m_data = data, !.m_state = Own,
                                        !.log = Append(@, Ev("get_mmap_data", data, Null, length,
                                                             m_file_offset, cudaSuccess))]
              ELSE IF m_device = GPU
                   THEN LET data == allocate(self.log)
                            temp_ptr == new_array(self.log)
                        IN [self EXCEPT !.m_data = data, !.m_state = Own,
                                        !.log = @ \o
                                          << Ev("allocate", data, Null, length, 0, cudaSuccess),
                                             Ev("new", temp_ptr, Null, length * sizeof_float, 0, cudaSuccess),
                                             Ev("read_data", temp_ptr, Null, length, m_file_offset, cudaSuccess),
                                             Ev("cudaMemcpy", data, temp_ptr, length, 0, error),
                                             Ev("delete", temp_ptr, Null, 0, 0, cudaSuccess) >>]
                   ELSE LET data == allocate(self.log)
                        IN [self EXCEPT !.m_data = data, !.m_state = Own,
                                        !.log = @ \o
                                          << Ev("allocate", data, Null, length, 0, cudaSuccess),
                                             Ev("read_data", data, Null, length, m_file_offset, cudaSuccess) >>]
         ELSE prepare_no_file(self, length)
    ELSE [self EXCEPT !.m_state = Own]

\* mutant of Tensor_recall_data: the handle is dropped without free_device
Tensor_recall_data_NoFree(self) ==
    IF self.m_shared
    THEN self
    ELSE IF ~m_file.present /\ self.m_data # Null /\ self.m_state = Own
         THEN [self EXCEPT !.m_data = Null, !.m_state = OutSide]
         ELSE [self EXCEPT !.m_state = OutSide]

\* mutant of Tensor_recall_data: the freed handle is not reset to nullptr
Tensor_recall_data_KeepData(self) ==
    IF self.m_shared
    THEN self
    ELSE IF ~m_file.present /\ self.m_data # Null /\ self.m_state = Own
         THEN [self EXCEPT !.m_state = OutSide,
                           !.log = Append(@, Ev("free_device", self.m_data, Null, 0, 0, cudaSuccess))]
         ELSE [self EXCEPT !.m_state = OutSide]

\* mutant of Tensor_recall_data: the free does not test m_file
Tensor_recall_data_IgnoreFile(self) ==
    IF self.m_shared
    THEN self
    ELSE IF self.m_data # Null /\ self.m_state = Own
         THEN [self EXCEPT !.m_data = Null, !.m_state = OutSide,
                           !.log = Append(@, Ev("free_device", self.m_data, Null, 0, 0, cudaSuccess))]
         ELSE [self EXCEPT !.m_state = OutSide]

\* mutant of Tensor_recall_data: a shared tensor is not returned early, only
\* its buffer is spared
Tensor_recall_data_SharedToOutSide(self) ==
    IF ~self.m_shared /\ ~m_file.present /\ self.m_data # Null /\ self.m_state = Own
    THEN [self EXCEPT !.m_data = Null, !.m_state = OutSide,
                      !.log = Append(@, Ev("free_device", self.m_data, Null, 0, 0, cudaSuccess))]
    ELSE [self EXCEPT !.m_state = OutSide]

\* mutant of Tensor_recall_data: m_state is reset only when the buffer is freed
Tensor_recall_data_StateOnFree(self) ==
    IF self.m_shared
    THEN self
    ELSE IF ~m_file.present /\ self.m_data # Null /\ self.m_state = Own
         THEN [self EXCEPT !.m_data = Null, !.m_state = OutSide,
                           !.log = Append(@, Ev("free_device", self.m_data, Null, 0, 0, cudaSuccess))]
         ELSE self

Tensor_recall_data(self) ==
    IF self.m_shared
    THEN self
    ELSE IF ~m_file.present /\ self.m_data # Null /\ self.m_state = Own
         THEN [self EXCEPT !.m_data = Null, !.m_state = OutSide,
                           !.log = Append(@, Ev("free_device", self.m_data, Null, 0, 0, cudaSuccess))]
         ELSE [self EXCEPT !.m_state = OutSide]

\* mutant of set_shared_memory_assert: the capacity test is strict
set_shared_memory_assert_Strict(data, size) == data = Null \/ size > length_in_byte

\* the condition of INFER_ASSERT in set_shared_memory
set_shared_memory_assert(data, size) == data = Null \/ size >= length_in_byte

\* mutant of Tensor_set_shared_memory: m_state is left as it was
Tensor_set_shared_memory_KeepState(self, data, size) ==
    [self EXCEPT !.m_data = data, !.m_shared = TRUE]

Tensor_set_shared_memory(self, data, size) ==
    [self EXCEPT !.m_data = data, !.m_state = Own, !.m_shared = TRUE]

\* mutant of Tensor_destructor: the file-backed buffer is not freed
Tensor_destructor_NoFileFree(self) ==
    IF self.m_state = Own THEN Tensor_recall_data(self) ELSE self

\* mutant of Tensor_destructor: the cleanup ignores enable_mmap()
Tensor_destructor_AnyFile(self) ==
    LET s1 == IF self.m_state = Own THEN Tensor_recall_data(self) ELSE self
    IN IF m_file.present /\ s1.m_data # Null
       THEN [s1 EXCEPT !.log = Append(@, Ev("free_device", s1.m_data, Null, 0, 0, cudaSuccess))]
       ELSE s1

Tensor_destructor(self) ==
    LET s1 == IF self.m_state = Own THEN Tensor_recall_data(self) ELSE self
    IN IF m_file.present /\ ~enable_mmap /\ s1.m_data # Null
       THEN [s1 EXCEPT !.log = Append(@, Ev("free_device", s1.m_data, Null, 0, 0, cudaSuccess))]
       ELSE s1

\* ------------------------------------------------------------------ actions
NoArgs == [data |-> Null, size |-> 0]
Snapshot == [m_data |-> m_data, m_state |-> m_state, m_shared |-> m_shared]

Install(s) ==
    /\ m_data' = s.m_data
    /\ m_state' = s.m_state
    /\ m_shared' = s.m_shared
    /\ log' = s.log

Called(op) ==
    /\ lastOp' = op
    /\ prevOp' = lastOp
    /\ pre' = Snapshot
    /\ callStart' = Len(log)
    /\ prevStart' = callStart
    /\ UNCHANGED dtVars

NoCall == [fn |-> "none", dtype |-> "none"]

Init ==
    /\ m_dtype \in DTypes
    /\ m_length \in ElementCounts
    /\ m_device \in {CPU, GPU}
    /\ m_file \in Files
    /\ m_file_offset \in (IF m_file.present THEN FileOffsets ELSE {0})
    /\ m_data = Null
    /\ m_state = OutSide
    /\ m_shared = FALSE
    /\ pc = "alive"
    /\ log = <<>>
    /\ lastOp = "none"
    /\ prevOp = "none"
    /\ pre = [m_data |-> Null, m_state |-> OutSide, m_shared |-> FALSE]
    /\ args = NoArgs
    /\ ret = "void"
    /\ callStart = 0
    /\ prevStart = 0
    /\ bound = {}
    /\ orphaned = {}
    /\ q_table = {}
    /\ q_abort = NoCall
    /\ q_pc = "run"

prepare_data ==
    /\ pc = "alive"
    /\ \E error \in CudaErrors :
         LET s == Tensor_prepare_data(Self, error) IN
         /\ CountOp(s.log, "allocate") <= MaxAlloc
         /\ Install(s)
         /\ ret' = s.m_state
    /\ Called("prepare_data")
    /\ args' = NoArgs
    /\ UNCHANGED <<cfgVars, pc, bound, orphaned>>

recall_data ==
    /\ pc = "alive"
    /\ LET s == Tensor_recall_data(Self) IN
         /\ Install(s)
         /\ ret' = s.m_state
    /\ Called("recall_data")
    /\ args' = NoArgs
    /\ UNCHANGED <<cfgVars, pc, bound, orphaned>>

SizeChoices == {0, length_in_byte - 1, length_in_byte, length_in_byte + 1}

set_shared_memory ==
    /\ pc = "alive"
    /\ \E data \in ExtPtrs \cup {Null}, size \in SizeChoices :
         /\ args' = [data |-> data, size |-> size]
         /\ IF set_shared_memory_assert(data, size)
            THEN /\ Install(Tensor_set_shared_memory(Self, data, size))
                 /\ pc' = pc
                 /\ bound' = (bound \cup {data}) \ {Null}
                 /\ orphaned' = orphaned \cup ({m_data} \cap AllocatedPtrs(log))
            ELSE /\ UNCHANGED <<m_data, m_state, m_shared, log, bound, orphaned>>
                 /\ pc' = "aborted"
    /\ Called("set_shared_memory")
    /\ ret' = "void"
    /\ UNCHANGED cfgVars

destructor ==
    /\ pc = "alive"
    /\ Install(Tensor_destructor(Self))
    /\ pc' = "destroyed"
    /\ Called("destructor")
    /\ args' = NoArgs
    /\ ret' = "void"
    /\ UNCHANGED <<cfgVars, bound, orphaned>>

Next == prepare_data \/ recall_data \/ set_shared_memory \/ destructor

Spec == Init /\ [][Next]_vars

\* ------------------------------------------------- the dtype table on its own
\* A caller that queries the two sizing functions, for known and unknown
\* DType values, until an INFER_ASSERT aborts it.
AllDTypes == DTypes \cup OtherDTypes

InitDType ==
    /\ Init
    /\ m_dtype = Float32 /\ m_length = 10 /\ m_device = CPU /\ m_file = NoFile

DTypeCall(fn, dtype, value) ==
    /\ q_pc = "run"
    /\ IF value = AssertFailed
       THEN /\ q_pc' = "aborted"
            /\ q_abort' = [fn |-> fn, dtype |-> dtype]
            /\ q_table' = q_table
       ELSE /\ q_table' = q_table \cup {[fn |-> fn, dtype |-> dtype, value |-> value]}
            /\ UNCHANGED <<q_pc, q_abort>>
    /\ UNCHANGED tensorVars

call_dtype_in_byte ==
    \E dtype \in AllDTypes : DTypeCall("dtype_in_byte", dtype, dtype_in_byte(dtype))

call_dtype_block_size ==
    \E dtype \in AllDTypes : DTypeCall("dtype_block_size", dtype, dtype_block_size(dtype))

NextDType == call_dtype_in_byte \/ call_dtype_block_size

SpecDType == InitDType /\ [][NextDType]_vars

\* ------------------------------------------------------------ log queries
\* the collaborator calls made by the last call
CallEvents == SubSeq(log, callStart + 1, Len(log))
\* the collaborator calls made by the last two calls
PairEvents == SubSeq(log, prevStart + 1, Len(log))
Indices(lg, op) == {i \in DOMAIN lg : lg[i].op = op}
\* how many times free_device was invoked on p
FreesOf(p) == Cardinality({i \in Indices(log, "free_device") : log[i].ptr = p})
\* the pointers Device::allocate returned
AllocPtrs == {log[i].ptr : i \in Indices(log, "allocate")}
\* the last call was a prepare_data that found the tensor unmaterialized
Materialized == lastOp = "prepare_data" /\ pre.m_data = Null /\ pre.m_state = OutSide

\* ------------------------------------------------------------------ claims

\* C1: once set_shared_memory(p, s) was called with non-null p, no later
\* recall_data and no destruction invokes free_device on p, for every device
\* kind and every file configuration.
C1_SharedNeverFreed == \A p \in bound : FreesOf(p) = 0

\* C2: non-shared tensor, mapping-capable file, GPU device: when destruction
\* completes, the accelerator buffer allocated by prepare_data has been passed
\* to free_device exactly once.
C2_MmapGpuFreedOnce ==
    (pc = "destroyed" /\ ~m_shared /\ m_file.present /\ enable_mmap /\ m_device = GPU)
        => \A p \in AllocPtrs : FreesOf(p) = 1

\* C3: non-shared tensor, file without mapping (either device kind):
\* prepare_data allocates one device buffer and reads length_in_byte() bytes
\* from m_file_offset, recall_data never frees that buffer, and destruction
\* frees it exactly once, also when the tensor is destroyed in state OutSide.
C3_ReadFileFreedOnce ==
    (~m_shared /\ m_file.present /\ ~enable_mmap) =>
        /\ Cardinality(Indices(log, "allocate")) <= 1
        /\ Materialized =>
             /\ Cardinality(Indices(CallEvents, "allocate")) = 1
             /\ \A i \in Indices(CallEvents, "allocate") :
                    CallEvents[i].ptr = m_data /\ CallEvents[i].bytes = length_in_byte
             /\ Cardinality(Indices(CallEvents, "read_data")) = 1
             /\ \A i \in Indices(CallEvents, "read_data") :
                    /\ CallEvents[i].bytes = length_in_byte
                    /\ CallEvents[i].off = m_file_offset
        /\ pc = "alive" => Indices(log, "free_device") = {}
        /\ pc = "destroyed" => \A p \in AllocPtrs : FreesOf(p) = 1
        /\ pc = "destroyed" => Cardinality(Indices(log, "free_device")) = Cardinality(AllocPtrs)

\* C3 witness: materialized, released, then destroyed while OutSide, buffer freed.
C3_Witness ==
    /\ pc = "destroyed" /\ ~m_shared /\ m_file.present /\ ~enable_mmap
    /\ pre.m_state = OutSide /\ prevOp = "recall_data"
    /\ AllocPtrs # {} /\ \A p \in AllocPtrs : FreesOf(p) = 1

\* C4: non-shared tensor without file: the number of allocate calls equals the
\* number of free_device calls right after each recall_data and after
\* destruction, and each prepare_data that follows a recall_data allocates anew.
C4_AllocFreeBalanced ==
    (~m_shared /\ ~m_file.present) =>
        /\ (lastOp = "recall_data" \/ pc = "destroyed") =>
               /\ Cardinality(Indices(log, "allocate")) = Cardinality(Indices(log, "free_device"))
               /\ \A p \in AllocPtrs : FreesOf(p) = 1
        /\ (lastOp = "prepare_data" /\ prevOp = "recall_data") =>
               /\ Cardinality(Indices(CallEvents, "allocate")) = 1
               /\ \A i \in Indices(CallEvents, "allocate") :
                      /\ CallEvents[i].ptr = m_data
                      /\ \A j \in Indices(log, "allocate") :
                             j < callStart + i => log[j].ptr # m_data

\* C4 witness: a second prepare_data after prepare_data, recall_data.
C4_Witness ==
    /\ ~m_shared /\ ~m_file.present
    /\ lastOp = "prepare_data" /\ prevOp = "recall_data"
    /\ Cardinality(Indices(log, "allocate")) = 2
    /\ Cardinality(Indices(log, "free_device")) = 1

\* C5 as stated: prepare_data called with m_data non-null or m_state not
\* OutSide makes no collaborator call and leaves m_data unchanged; two
\* consecutive prepare_data calls yield the same handle and exactly one
\* allocation.
C5_Original ==
    /\ (lastOp = "prepare_data" /\ (pre.m_data # Null \/ pre.m_state # OutSide)) =>
           CallEvents = <<>> /\ m_data = pre.m_data
    /\ (lastOp = "prepare_data" /\ prevOp = "prepare_data") =>
           /\ m_data = pre.m_data
           /\ Cardinality(Indices(PairEvents, "allocate")) = 1

\* C5 amended: as C5, but the two consecutive calls make at most one
\* allocation, and the second call makes none.
C5_PrepareIdempotent ==
    /\ (lastOp = "prepare_data" /\ (pre.m_data # Null \/ pre.m_state # OutSide)) =>
           CallEvents = <<>> /\ m_data = pre.m_data
    /\ (lastOp = "prepare_data" /\ prevOp = "prepare_data") =>
           /\ m_data = pre.m_data
           /\ CallEvents = <<>>
           /\ Cardinality(Indices(PairEvents, "allocate")) <= 1

\* C5 witness: a second prepare_data right after one that allocated; it made
\* no collaborator call and the handle is the one the first call set.
C5_Witness ==
    /\ lastOp = "prepare_data" /\ prevOp = "prepare_data"
    /\ pre.m_data # Null /\ m_data = pre.m_data /\ CallEvents = <<>>
    /\ Cardinality(Indices(PairEvents, "allocate")) = 1

\* C6 as stated: in every state of a non-shared tensor, whatever the device
\* and the file configuration, m_state = OutSide implies m_data = nullptr.
C6_Original == (pc = "alive" /\ ~m_shared /\ m_state = OutSide) => m_data = Null

\* C6 amended: in every state of a non-shared tensor without file backing,
\* m_state = OutSide implies m_data = nullptr.
C6_OutSideNullNoFile == (~m_shared /\ ~m_file.present /\ m_state = OutSide) => m_data = Null

\* C6 witness: a tensor without file, released after it held a buffer.
C6_Witness ==
    /\ ~m_shared /\ ~m_file.present /\ lastOp = "recall_data"
    /\ pre.m_data # Null /\ m_state = OutSide /\ m_data = Null

\* C7: set_shared_memory(ptr, size) hits the fatal assertion exactly when ptr
\* is non-null and size < length_in_byte() (10 Float32 elements: 40 passes,
\* 39 fails), and then m_data, m_state and m_shared are unchanged.
C7_BindAssert ==
    lastOp = "set_shared_memory" =>
        /\ pc = "aborted" <=> (args.data # Null /\ args.size < length_in_byte)
        /\ pc = "aborted" =>
               m_data = pre.m_data /\ m_state = pre.m_state /\ m_shared = pre.m_shared
        /\ (m_dtype = Float32 /\ m_length = 10 /\ args.data # Null) =>
               /\ length_in_byte = 40
               /\ args.size = 40 => pc # "aborted"
               /\ args.size = 39 => pc = "aborted"

\* C7 witness: 10 Float32 elements, a non-null pointer with size 39, aborted.
C7_Witness ==
    /\ lastOp = "set_shared_memory" /\ pc = "aborted"
    /\ m_dtype = Float32 /\ m_length = 10 /\ args.data # Null /\ args.size = 39

\* C8: a successful set_shared_memory(ptr, size) sets m_data = ptr, m_state =
\* Own and m_shared = true whatever the prior state, and once m_shared is true
\* no later call makes it false.
C8_BindIrrevocable ==
    /\ (lastOp = "set_shared_memory" /\ pc # "aborted") =>
           m_data = args.data /\ m_state = Own /\ m_shared
    /\ pre.m_shared => m_shared

\* C8 witness: a caller-owned pointer was bound, and the recall_data that
\* followed left m_shared, m_state and m_data as the binding set them.
C8_Witness ==
    /\ lastOp = "recall_data" /\ prevOp = "set_shared_memory"
    /\ pre.m_shared /\ m_shared /\ m_state = Own /\ m_data \in ExtPtrs

\* C9: recall_data on a non-shared tensor returns with m_state = OutSide, and
\* with m_data = nullptr when the tensor has no file backing.
C9_RecallPost ==
    (lastOp = "recall_data" /\ ~pre.m_shared) =>
        /\ m_state = OutSide /\ ret = OutSide
        /\ ~m_file.present => m_data = Null

\* C9 witness: recall_data of a materialized tensor without file.
C9_Witness ==
    /\ lastOp = "recall_data" /\ ~pre.m_shared /\ ~m_file.present
    /\ pre.m_state = Own /\ pre.m_data # Null /\ m_state = OutSide

\* C10: non-shared tensor, mapping-capable file, host device: prepare_data
\* takes the mapped pointer as m_data without Device::allocate, and neither
\* recall_data nor destruction ever invokes free_device on it.
C10_MmapHostView ==
    (~m_shared /\ m_file.present /\ enable_mmap /\ m_device = CPU) =>
        /\ Materialized =>
               /\ m_data = get_mmap_data(length_in_byte, m_file_offset)
               /\ Len(CallEvents) = 1
               /\ CallEvents[1].op = "get_mmap_data"
               /\ CallEvents[1].bytes = length_in_byte
               /\ CallEvents[1].off = m_file_offset
        /\ Indices(log, "allocate") = {}
        /\ Indices(log, "free_device") = {}

\* C10 witness: the mapped view was taken, released, and the tensor destroyed.
C10_Witness ==
    /\ ~m_shared /\ m_file.present /\ enable_mmap /\ m_device = CPU
    /\ pc = "destroyed" /\ m_data = get_mmap_data(length_in_byte, m_file_offset)
    /\ Indices(log, "get_mmap_data") # {}

\* C11: dtype_in_byte and dtype_block_size return a value for each of the
\* eight known dtypes, the block size being 1 for the six dense types, QK80
\* for Int8 and QK40 for Int4, and both hit the fatal assertion for every
\* dtype value outside that set.
C11_DTypeTable ==
    /\ \A r \in q_table :
           /\ r.dtype \in DTypes
           /\ r.value > 0
           /\ r.fn = "dtype_block_size" =>
                  r.value = (IF r.dtype = Int8 THEN QK80
                             ELSE IF r.dtype = Int4 THEN QK40 ELSE 1)
    /\ q_pc = "aborted" <=> q_abort # NoCall
    /\ q_abort # NoCall => q_abort.dtype \notin DTypes

\* C11 witness: both functions returned for all eight dtypes, then one was
\* called with an unknown dtype and asserted.
C11_Witness ==
    /\ Cardinality(q_table) = 2 * Cardinality(DTypes)
    /\ q_pc = "aborted" /\ q_abort.dtype \in OtherDTypes

\* C12: prepare_data on an unmaterialized, non-shared tensor without file, on
\* either device kind, makes exactly one Device::allocate call, of exactly
\* length_in_byte() bytes, and no file map, file read or host-to-device copy.
C12_NoFileAllocOnly ==
    (Materialized /\ ~pre.m_shared /\ ~m_file.present) =>
        /\ Len(CallEvents) = 1
        /\ CallEvents[1].op = "allocate"
        /\ CallEvents[1].bytes = length_in_byte
        /\ CallEvents[1].ptr = m_data
        /\ Indices(CallEvents, "get_mmap_data") = {}
        /\ Indices(CallEvents, "read_data") = {}
        /\ Indices(CallEvents, "cudaMemcpy") = {}

\* C12 witness: an Int4 tensor of 100 elements without file materialized on
\* the GPU: one allocation of 4 blocks.
C12_Witness ==
    /\ Materialized /\ ~m_shared /\ ~m_file.present /\ m_device = GPU
    /\ m_dtype = Int4 /\ m_length = 100
    /\ Len(CallEvents) = 1 /\ CallEvents[1].bytes = 4 * sizeof_BlockQ40

\* C13: after prepare_data returns, from any reachable state (also after
\* set_shared_memory with a null pointer, and after a failed device copy),
\* m_state = Own and m_data is non-null.
C13_PrepareYieldsData ==
    lastOp = "prepare_data" => (m_state = Own /\ ret = Own /\ m_data # Null)

\* C14: recall_data on a non-shared tensor with file backing (mapping or not,
\* either device kind) never invokes free_device and leaves m_data unchanged;
\* only m_state changes.
C14_RecallKeepsFileData ==
    (lastOp = "recall_data" /\ ~pre.m_shared /\ m_file.present) =>
        /\ CallEvents = <<>>
        /\ m_data = pre.m_data
        /\ m_shared = pre.m_shared
        /\ m_state = OutSide

\* C14 witness: recall_data of a materialized file-backed tensor.
C14_Witness ==
    /\ lastOp = "recall_data" /\ ~pre.m_shared /\ m_file.present
    /\ pre.m_state = Own /\ pre.m_data # Null /\ m_data = pre.m_data /\ m_state = OutSide

\* C15: recall_data on a shared tensor leaves m_data, m_state and m_shared
\* unchanged and returns the current state; hence a shared tensor's state
\* never reverts to OutSide after set_shared_memory.
C15_RecallSharedNoOp ==
    /\ (lastOp = "recall_data" /\ pre.m_shared) =>
           /\ m_data = pre.m_data /\ m_state = pre.m_state /\ m_shared
           /\ ret = pre.m_state
           /\ CallEvents = <<>>
    /\ m_shared => m_state = Own

\* C15 witness: recall_data of a shared tensor.
C15_Witness ==
    /\ lastOp = "recall_data" /\ pre.m_shared /\ m_shared
    /\ m_state = Own /\ ret = Own /\ m_data \in ExtPtrs

\* C16: on every prepare_data path that copies host memory to the accelerator
\* (mapped file then copy, read file then copy), a failed copy is reported
\* with printf before prepare_data returns.
C16_CopyFailureLogged ==
    lastOp = "prepare_data" =>
        \A i \in Indices(CallEvents, "cudaMemcpy") :
            CallEvents[i].err # cudaSuccess =>
                \E j \in Indices(CallEvents, "printf") : j > i

\* C17: on the file-backed, non-mapping, GPU path of prepare_data the host
\* staging buffer is allocated with exactly length_in_byte() bytes, the length
\* of the accelerator buffer, of the file read and of the copy, and is
\* released exactly once before prepare_data returns.
C17_StagingSameLength ==
    (Materialized /\ ~pre.m_shared /\ m_file.present /\ ~enable_mmap /\ m_device = GPU) =>
        /\ Cardinality(Indices(CallEvents, "new")) = 1
        /\ \A i \in Indices(CallEvents, "new") :
               /\ CallEvents[i].bytes = length_in_byte
               /\ \A k \in Indices(CallEvents, "allocate") \cup Indices(CallEvents, "read_data")
                            \cup Indices(CallEvents, "cudaMemcpy") :
                      CallEvents[k].bytes = CallEvents[i].bytes
               /\ Cardinality({j \in Indices(CallEvents, "delete") :
                                  CallEvents[j].ptr = CallEvents[i].ptr /\ j > i}) = 1

\* C18: when set_shared_memory is called on a tensor that holds a device
\* buffer it allocated itself in prepare_data, that buffer has been passed to
\* free_device exactly once when destruction completes.
C18_BindDoesNotLeak ==
    pc = "destroyed" => \A p \in orphaned : FreesOf(p) = 1

\* C19: device free is never invoked twice on the same allocation: after any
\* sequence of prepare_data, recall_data and set_shared_memory calls and
\* destruction, on every device kind and file configuration, each
\* Device::allocate result was passed to free_device at most once.
C19_NoDoubleFree ==
    /\ \A p \in AllocPtrs : FreesOf(p) <= 1
    /\ \A i \in Indices(log, "free_device") :
           \A j \in Indices(log, "free_device") : log[i].ptr = log[j].ptr => i = j

\* C19 witness: a destruction in state Own of a file-backed tensor, where
\* recall_data ran inside ~Tensor and the destructor's own cleanup freed the
\* buffer, once.
C19_Witness ==
    /\ pc = "destroyed" /\ pre.m_state = Own /\ ~m_shared
    /\ m_file.present /\ ~enable_mmap
    /\ m_data \in AllocPtrs /\ FreesOf(m_data) = 1

====
